---- MODULE Spec2Model ----
(***************************************************************************)
(* A model of src/main.rs: the SoftBox -> Mesh conversion, the map-driven  *)
(* point generator get_world_points and the random direction selector      *)
(* _get_random_direction.                                                  *)
(*                                                                         *)
(* f32 values are modelled as integers counting units of 1/200, so that    *)
(* 0.01 is 2, 0.5 is 100 and 3.0 is 600.  Side lengths are drawn from the   *)
(* even integers, on which the halving of SoftBox::new is exact.  The       *)
(* constants 0., 1.0 and -1.0 of normals and UVs are written 0, 1 and -1   *)
(* (they are never added to a coordinate).                                 *)
(***************************************************************************)
EXTENDS Integers, Sequences, FiniteSets

VARIABLES
    shape,       \* setup: the SoftBox handed to meshes.add(shape.into())
    meshes,      \* setup: the meshes added to Assets<Mesh>, in order
    string_map,  \* get_world_points: the map being converted
    points,      \* get_world_points: the returned Vec<PointI32>
    returned,    \* get_world_points: whether the function has returned
    walk,        \* the lattice walk built from _get_random_direction steps
    position,    \* _get_random_direction: the last value of gen_range(0..6)
    panicked     \* _get_random_direction: whether the panic! arm was taken

vars == <<shape, meshes, string_map, points, returned, walk, position, panicked>>

(***************************************************************************)
(* Bounds of the model.                                                    *)
(***************************************************************************)
MaxHalfLen == 4
MaxRadius == 3
MaxMeshes == 2
MaxRows == 2
MaxCols == 2
MaxWalkLen == 4

(***************************************************************************)
(* SoftBox                                                                 *)
(***************************************************************************)
Half(v) == v \div 2

\* SoftBox::new
SoftBoxNew(x_length, y_length, z_length, edge_radius) ==
    [ max_x |-> Half(x_length),  min_x |-> Half(-x_length),
      max_y |-> Half(y_length),  min_y |-> Half(-y_length),
      max_z |-> Half(z_length),  min_z |-> Half(-z_length),
      edge_radius |-> edge_radius ]

\* impl Default for SoftBox: SoftBox::new(3.0, 3.0, 3.0, 0.5)
SoftBoxDefault == SoftBoxNew(600, 600, 600, 100)

\* setup: let box_unit = 0.5
box_unit == 100

\* setup: SoftBox::new(box_unit, box_unit, box_unit, 0.01)
SetupShape == SoftBoxNew(box_unit, box_unit, box_unit, 2)

\* A SoftBox written as a struct literal (the fields are pub): not centred at the
\* origin, unlike every value of SoftBox::new.
OffCentreShape ==
    [ min_x |-> 1, max_x |-> 5, min_y |-> -6, max_y |-> 0, min_z |-> 3, max_z |-> 11,
      edge_radius |-> 1 ]

\* The side lengths and radii the conversion is exercised on.
Lengths == { 2 * k : k \in 0..MaxHalfLen }
Radii == 0..MaxRadius
Shapes ==
    { SoftBoxNew(xl, yl, zl, r) : xl \in Lengths, yl \in Lengths, zl \in Lengths, r \in Radii }
        \cup { SoftBoxDefault, SetupShape, OffCentreShape }

Vertex(p, n, uv) == [p |-> p, n |-> n, uv |-> uv]

\* From<SoftBox> for Mesh: the vertex table (position, normal, uv), one definition
\* per face group of the source.
front_vertices(sp) ==
    LET _r == sp.edge_radius IN
    << Vertex(<<sp.min_x + _r, sp.min_y + _r, sp.max_z>>, <<0, 0, 1>>, <<0, 0>>),   \* 0
       Vertex(<<sp.max_x - _r, sp.min_y + _r, sp.max_z>>, <<0, 0, 1>>, <<1, 0>>),   \* 1
       Vertex(<<sp.max_x - _r, sp.max_y - _r, sp.max_z>>, <<0, 0, 1>>, <<1, 1>>),   \* 2
       Vertex(<<sp.min_x + _r, sp.max_y - _r, sp.max_z>>, <<0, 0, 1>>, <<0, 1>>) >> \* 3

back_vertices(sp) ==
    LET _r == sp.edge_radius IN
    << Vertex(<<sp.min_x + _r, sp.max_y - _r, sp.min_z>>, <<0, 0, -1>>, <<1, 0>>),   \* 4
       Vertex(<<sp.max_x - _r, sp.max_y - _r, sp.min_z>>, <<0, 0, -1>>, <<0, 0>>),   \* 5
       Vertex(<<sp.max_x - _r, sp.min_y + _r, sp.min_z>>, <<0, 0, -1>>, <<0, 1>>),   \* 6
       Vertex(<<sp.min_x + _r, sp.min_y + _r, sp.min_z>>, <<0, 0, -1>>, <<1, 1>>) >> \* 7

right_vertices(sp) ==
    LET _r == sp.edge_radius IN
    << Vertex(<<sp.max_x, sp.min_y + _r, sp.min_z + _r>>, <<1, 0, 0>>, <<0, 0>>),   \* 8
       Vertex(<<sp.max_x, sp.max_y - _r, sp.min_z + _r>>, <<1, 0, 0>>, <<1, 0>>),   \* 9
       Vertex(<<sp.max_x, sp.max_y - _r, sp.max_z - _r>>, <<1, 0, 0>>, <<1, 1>>),   \* 10
       Vertex(<<sp.max_x, sp.min_y + _r, sp.max_z - _r>>, <<1, 0, 0>>, <<0, 1>>) >> \* 11

left_vertices(sp) ==
    LET _r == sp.edge_radius IN
    << Vertex(<<sp.min_x, sp.min_y + _r, sp.max_z - _r>>, <<-1, 0, 0>>, <<1, 0>>),   \* 12
       Vertex(<<sp.min_x, sp.max_y - _r, sp.max_z - _r>>, <<-1, 0, 0>>, <<0, 0>>),   \* 13
       Vertex(<<sp.min_x, sp.max_y - _r, sp.min_z + _r>>, <<-1, 0, 0>>, <<0, 1>>),   \* 14
       Vertex(<<sp.min_x, sp.min_y + _r, sp.min_z + _r>>, <<-1, 0, 0>>, <<1, 1>>) >> \* 15

top_vertices(sp) ==
    LET _r == sp.edge_radius IN
    << Vertex(<<sp.max_x - _r, sp.max_y, sp.min_z + _r>>, <<0, 1, 0>>, <<1, 0>>),   \* 16
       Vertex(<<sp.min_x + _r, sp.max_y, sp.min_z + _r>>, <<0, 1, 0>>, <<0, 0>>),   \* 17
       Vertex(<<sp.min_x + _r, sp.max_y, sp.max_z - _r>>, <<0, 1, 0>>, <<0, 1>>),   \* 18
       Vertex(<<sp.max_x - _r, sp.max_y, sp.max_z - _r>>, <<0, 1, 0>>, <<1, 1>>) >> \* 19

bottom_vertices(sp) ==
    LET _r == sp.edge_radius IN
    << Vertex(<<sp.max_x - _r, sp.min_y, sp.max_z - _r>>, <<0, -1, 0>>, <<0, 0>>),   \* 20
       Vertex(<<sp.min_x + _r, sp.min_y, sp.max_z - _r>>, <<0, -1, 0>>, <<1, 0>>),   \* 21
       Vertex(<<sp.min_x + _r, sp.min_y, sp.min_z + _r>>, <<0, -1, 0>>, <<1, 1>>),   \* 22
       Vertex(<<sp.max_x - _r, sp.min_y, sp.min_z + _r>>, <<0, -1, 0>>, <<0, 1>>) >> \* 23

\* A mutant of vertices: the left face is listed far-to-near (15, 14, 13, 12).
vertices_left_reordered(sp) ==
    front_vertices(sp) \o back_vertices(sp) \o right_vertices(sp)
        \o [ k \in 1..4 |-> left_vertices(sp)[5 - k] ]
        \o top_vertices(sp) \o bottom_vertices(sp)

\* A mutant of vertices: vertex 1 of the front face is not inset along x.
vertices_uninset(sp) ==
    [ front_vertices(sp) EXCEPT ![2].p[1] = sp.max_x ]
        \o back_vertices(sp) \o right_vertices(sp) \o left_vertices(sp)
        \o top_vertices(sp) \o bottom_vertices(sp)

\* A mutant of vertices: the bottom face carries the top face's normal.
vertices_bottom_normal_up(sp) ==
    front_vertices(sp) \o back_vertices(sp) \o right_vertices(sp) \o left_vertices(sp)
        \o top_vertices(sp)
        \o [ k \in 1..4 |-> [ bottom_vertices(sp)[k] EXCEPT !.n = <<0, 1, 0>> ] ]

\* From<SoftBox> for Mesh: `vertices`, vertex k of the source at place k + 1.
vertices(sp) ==
    front_vertices(sp) \o back_vertices(sp) \o right_vertices(sp) \o left_vertices(sp)
        \o top_vertices(sp) \o bottom_vertices(sp)

\* The three index groups of the source's Indices::U32(vec![...]).
face_indices ==
    << 0, 1, 2, 2, 3, 0,          \* front
       4, 5, 6, 6, 7, 4,          \* back
       8, 9, 10, 10, 11, 8,       \* right
       12, 13, 14, 14, 15, 12,    \* left
       16, 17, 18, 18, 19, 16,    \* top
       20, 21, 22, 22, 23, 20 >>  \* bottom

left_edge_indices ==
    << 0, 3, 13, 13, 12, 0,       \* front/left
       18, 17, 13, 14, 13, 17,    \* top/left
       4, 7, 14, 14, 7, 15,       \* back/left
       22, 21, 15, 12, 15, 21 >>  \* bottom/left

other_edge_indices ==
    << 2, 1, 10, 1, 11, 10,       \* front/right
       16, 19, 10, 10, 9, 16,     \* top/right
       6, 5, 9, 9, 8, 6,          \* back/right
       20, 23, 8, 8, 11, 20,      \* bottom/right
       19, 18, 2, 3, 2, 18,       \* top/front
       1, 0, 20, 21, 20, 0,       \* front/bottom
       23, 22, 7, 7, 6, 23,       \* bottom/back
       5, 4, 17, 17, 16, 5 >>     \* back/top

corner_indices ==
    << 18, 13, 3,                 \* top/left/front
       17, 4, 14,                 \* top/left/back
       19, 2, 10,                 \* top/right/front
       16, 9, 5,                  \* top/right/back
       21, 0, 12,                 \* bottom/left/front
       22, 15, 7,                 \* bottom/left/back
       20, 11, 1,                 \* bottom/right/front
       23, 6, 8 >>                \* bottom/right/back

\* A mutant of indices: the corner triangles are left out.
indices_no_corners == face_indices \o left_edge_indices \o other_edge_indices

\* A mutant of indices: only the four left-side bands are emitted, with the corners.
indices_left_bands_only == face_indices \o left_edge_indices \o corner_indices

\* A mutant of indices: the first front/right band triangle is wound the other way.
indices_band_flipped ==
    [ i \in 1..132 |->
        LET all == face_indices \o left_edge_indices \o other_edge_indices \o corner_indices
        IN  IF i = 61 THEN all[62] ELSE IF i = 62 THEN all[61] ELSE all[i] ]

\* A mutant of indices: the first front face triangle is wound the other way.
indices_front_flipped ==
    [ i \in 1..132 |->
        LET all == face_indices \o left_edge_indices \o other_edge_indices \o corner_indices
        IN  IF i = 2 THEN all[3] ELSE IF i = 3 THEN all[2] ELSE all[i] ]

\* From<SoftBox> for Mesh: the index list.
indices == face_indices \o left_edge_indices \o other_edge_indices \o corner_indices

\* From<SoftBox> for Mesh: the attributes and indices of the built mesh.
MeshFrom(sp) ==
    [ positions |-> [ k \in 1..Len(vertices(sp)) |-> vertices(sp)[k].p ],
      normals   |-> [ k \in 1..Len(vertices(sp)) |-> vertices(sp)[k].n ],
      uvs       |-> [ k \in 1..Len(vertices(sp)) |-> vertices(sp)[k].uv ],
      indices   |-> indices ]

(***************************************************************************)
(* get_world_points                                                        *)
(***************************************************************************)
\* PointI32::new
PointI32(x, y, z) == [x |-> x, y |-> y, z |-> z]

\* get_world_points: the string_map literal, one tuple of characters per line.
builtin_string_map ==
    << << "X", "X", "X", "X", "X", "X", "X", "X", "X", "X", "X", "X", "X", "X" >>,
       << "X", " ", " ", "X", " ", " ", " ", " ", " ", " ", " ", " ", " ", "X" >>,
       << "X", " ", " ", " ", " ", " ", " ", " ", " ", " ", " ", " ", " ", "X" >>,
       << "X", " ", " ", "X", " ", " ", " ", " ", " ", " ", " ", " ", " ", "X" >>,
       << "X", " ", " ", " ", " ", " ", " ", " ", " ", " ", " ", "X", " ", "X" >>,
       << "X", " ", " ", " ", " ", " ", " ", " ", " ", " ", " ", " ", " ", "X" >>,
       << "X", "X", "X", "X", "X", "X", "X", "X", "X", "X", "X", "X", "X", "X" >> >>

\* The characters of the map literal, and the other maps the loops are exercised on.
Chars == { "X", " " }
SeqsUpTo(S, n) == UNION { [1..k -> S] : k \in 0..n }
Maps == SeqsUpTo(SeqsUpTo(Chars, MaxCols), MaxRows) \cup { builtin_string_map }

\* A mutant of CharPoints: the floor point is pushed before the wall point.
CharPoints_floor_first(char, x, z) ==
    <<PointI32(x, -1, z)>> \o (IF char = "X" THEN <<PointI32(x, 0, z)>> ELSE <<>>)

\* get_world_points: the pushes of the inner loop's body for one character.
CharPoints(char, x, z) ==
    (IF char = "X" THEN <<PointI32(x, 0, z)>> ELSE <<>>) \o <<PointI32(x, -1, z)>>

\* A mutant of CharsLoop: x is incremented after the pushes (0-based columns).
RECURSIVE CharsLoop_zero_based(_, _, _)
CharsLoop_zero_based(chars, x, z) ==
    IF chars = <<>> THEN <<>>
    ELSE CharPoints(Head(chars), x, z) \o CharsLoop_zero_based(Tail(chars), x + 1, z)

\* get_world_points: the inner loop over the characters left of a line, x being the
\* counter's value on entry (x += 1 comes before the pushes).
RECURSIVE CharsLoop(_, _, _)
CharsLoop(chars, x, z) ==
    IF chars = <<>> THEN <<>>
    ELSE CharPoints(Head(chars), x + 1, z) \o CharsLoop(Tail(chars), x + 1, z)

\* get_world_points: the outer loop over the lines left, z being the counter's value
\* on entry (let mut x = 0 per line, z += 1 after it).
RECURSIVE LinesLoop(_, _)
LinesLoop(lines, z) ==
    IF lines = <<>> THEN <<>>
    ELSE CharsLoop(Head(lines), 0, z) \o LinesLoop(Tail(lines), z + 1)

\* get_world_points, with the map literal as a parameter.
GetWorldPoints(map) == LinesLoop(map, 0)

(***************************************************************************)
(* _get_random_direction and the walk                                      *)
(***************************************************************************)
\* rng.gen_range(0..6)
GenRange == 0..5

Returned(p) == [panic |-> FALSE, value |-> p]
Panic == [panic |-> TRUE, value |-> PointI32(0, 0, 0)]

\* A mutant of get_random_direction: the arm for 5 is missing.
get_random_direction_no_arm_5(pos) ==
    CASE pos = 0 -> Returned(PointI32(1, 0, 0))
      [] pos = 1 -> Returned(PointI32(-1, 0, 0))
      [] pos = 2 -> Returned(PointI32(0, 1, 0))
      [] pos = 3 -> Returned(PointI32(0, -1, 0))
      [] pos = 4 -> Returned(PointI32(0, 0, 1))
      [] OTHER -> Panic

\* _get_random_direction: the match on the drawn value.
get_random_direction(pos) ==
    CASE pos = 0 -> Returned(PointI32(1, 0, 0))
      [] pos = 1 -> Returned(PointI32(-1, 0, 0))
      [] pos = 2 -> Returned(PointI32(0, 1, 0))
      [] pos = 3 -> Returned(PointI32(0, -1, 0))
      [] pos = 4 -> Returned(PointI32(0, 0, 1))
      [] pos = 5 -> Returned(PointI32(0, 0, -1))
      [] OTHER -> Panic

\* The walk's fixed origin.
WalkOrigin == PointI32(0, 5, 0)

PointAdd(a, b) == PointI32(a.x + b.x, a.y + b.y, a.z + b.z)

(***************************************************************************)
(* The state machines                                                      *)
(***************************************************************************)
BoxIdle == shape = SetupShape /\ meshes = <<>>
MapIdle == string_map = builtin_string_map /\ points = <<>> /\ returned = FALSE
WalkIdle == walk = <<WalkOrigin>> /\ position = 0 /\ panicked = FALSE

\* setup: meshes.add(shape.into()), once per point.
AddMesh ==
    /\ Len(meshes) < MaxMeshes
    /\ meshes' = Append(meshes, MeshFrom(shape))
    /\ UNCHANGED <<shape, string_map, points, returned, walk, position, panicked>>

InitBox == shape \in Shapes /\ meshes = <<>> /\ MapIdle /\ WalkIdle
NextBox == AddMesh
SpecBox == InitBox /\ [][NextBox]_vars

\* setup: let points = get_world_points()
CallGetWorldPoints ==
    /\ ~returned
    /\ points' = GetWorldPoints(string_map)
    /\ returned' = TRUE
    /\ UNCHANGED <<shape, meshes, string_map, walk, position, panicked>>

InitMap == string_map \in Maps /\ points = <<>> /\ returned = FALSE /\ BoxIdle /\ WalkIdle
NextMap == CallGetWorldPoints
SpecMap == InitMap /\ [][NextMap]_vars

\* One step of the walk: draw a direction and append previous + direction.
WalkStep ==
    /\ Len(walk) < MaxWalkLen
    /\ ~panicked
    /\ \E pos \in GenRange :
         /\ position' = pos
         /\ LET d == get_random_direction(pos) IN
            IF d.panic
            THEN panicked' = TRUE /\ walk' = walk
            ELSE panicked' = FALSE /\ walk' = Append(walk, PointAdd(walk[Len(walk)], d.value))
    /\ UNCHANGED <<shape, meshes, string_map, points, returned>>

InitWalk == walk = <<WalkOrigin>> /\ position = 0 /\ panicked = FALSE /\ BoxIdle /\ MapIdle
NextWalk == WalkStep
SpecWalk == InitWalk /\ [][NextWalk]_vars

(***************************************************************************)
(* Vocabulary of the properties                                            *)
(***************************************************************************)
Abs(n) == IF n < 0 THEN -n ELSE n

\* The triangles of an index list, stride 3.
Triangles(idx) ==
    [ t \in 1..(Len(idx) \div 3) |-> << idx[3 * t - 2], idx[3 * t - 1], idx[3 * t] >> ]

\* The edges of a triangle, in winding order and without direction.
DirectedEdges(tri) == { <<tri[1], tri[2]>>, <<tri[2], tri[3]>>, <<tri[3], tri[1]>> }
UndirectedEdges(tri) == { {tri[1], tri[2]}, {tri[2], tri[3]}, {tri[3], tri[1]} }

\* The position of the vertex an index names (indices count from 0).
PositionAt(m, i) == m.positions[i + 1]
NormalAt(m, i) == m.normals[i + 1]

\* The faces in the order of the vertex groups: front, back, right, left, top, bottom.
\* Axis 1 is x, 2 is y, 3 is z; the sign says whether the face lies at max or at min.
FaceAxis == << 3, 3, 1, 1, 2, 2 >>
FaceSign == << 1, -1, 1, -1, 1, -1 >>
AxisVector(a, s) == [ c \in 1..3 |-> IF c = a THEN s ELSE 0 ]

MinOf(sp, a) == CASE a = 1 -> sp.min_x [] a = 2 -> sp.min_y [] a = 3 -> sp.min_z
MaxOf(sp, a) == CASE a = 1 -> sp.max_x [] a = 2 -> sp.max_y [] a = 3 -> sp.max_z
ExtremeOf(sp, a, s) == IF s = 1 THEN MaxOf(sp, a) ELSE MinOf(sp, a)
Tangents(a) == CASE a = 1 -> <<2, 3>> [] a = 2 -> <<1, 3>> [] a = 3 -> <<1, 2>>

Sub(u, v) == << u[1] - v[1], u[2] - v[2], u[3] - v[3] >>
Cross(u, v) ==
    << u[2] * v[3] - u[3] * v[2], u[3] * v[1] - u[1] * v[3], u[1] * v[2] - u[2] * v[1] >>
Dot(u, v) == u[1] * v[1] + u[2] * v[2] + u[3] * v[3]
Scaled(k, v) == << k * v[1], k * v[2], k * v[3] >>

\* Positive side lengths and 0 <= edge_radius < min(side length) / 2.
ValidBox(sp) ==
    /\ sp.edge_radius >= 0
    /\ \A a \in 1..3 : MaxOf(sp, a) - MinOf(sp, a) > 0
                       /\ 2 * sp.edge_radius < MaxOf(sp, a) - MinOf(sp, a)

Occurrences(seq, e) == Cardinality({ i \in 1..Len(seq) : seq[i] = e })

(***************************************************************************)
(* The mesh                                                                *)
(***************************************************************************)
\* C1 (as stated): every built mesh has an index list of exactly 114 entries.
IndexCountIs114 == \A k \in 1..Len(meshes) : Len(meshes[k].indices) = 114

\* C1 (amended): every built mesh has an index list of exactly 132 entries: 36 for
\* the 6 faces, 72 for the 12 edge bands and 24 for the 8 corner triangles.
IndexCountIs132 == \A k \in 1..Len(meshes) : Len(meshes[k].indices) = 132

IndexCountWitness == Len(meshes) = 1 /\ shape = SoftBoxDefault

\* C2: in every built mesh, every undirected edge of a triangle of the index list
\* belongs to exactly two triangles.
EdgeWatertight ==
    \A k \in 1..Len(meshes) :
        LET tris == Triangles(meshes[k].indices) IN
        \A t \in 1..Len(tris) : \A e \in UndirectedEdges(tris[t]) :
            Cardinality({ u \in 1..Len(tris) : e \in UndirectedEdges(tris[u]) }) = 2

EdgeWatertightWitness ==
    /\ Len(meshes) >= 1 /\ ValidBox(shape) /\ shape.edge_radius > 0
    /\ Len(Triangles(meshes[1].indices)) = 44

\* C5: every built mesh has 24 vertices in six groups of four (front, back, right,
\* left, top, bottom); in a group, the coordinate on the face's axis is the face's
\* uninset extreme and the two tangent coordinates run through the four combinations
\* of min + edge_radius and max - edge_radius.
VertexLayout ==
    \A k \in 1..Len(meshes) :
        LET m == meshes[k]
            r == shape.edge_radius
        IN
        /\ Len(m.positions) = 24 /\ Len(m.normals) = 24 /\ Len(m.uvs) = 24
        /\ \A g \in 1..6 :
            LET a == FaceAxis[g]
                t1 == Tangents(a)[1]
                t2 == Tangents(a)[2]
                lo1 == MinOf(shape, t1) + r
                hi1 == MaxOf(shape, t1) - r
                lo2 == MinOf(shape, t2) + r
                hi2 == MaxOf(shape, t2) - r
                combos == << <<lo1, lo2>>, <<lo1, hi2>>, <<hi1, lo2>>, <<hi1, hi2>> >>
                P == [ j \in 1..4 |-> m.positions[4 * (g - 1) + j] ]
            IN
            /\ \A j \in 1..4 : P[j][a] = ExtremeOf(shape, a, FaceSign[g])
            /\ \E perm \in [1..4 -> 1..4] :
                /\ \A i, j \in 1..4 : i # j => perm[i] # perm[j]
                /\ \A j \in 1..4 : << P[j][t1], P[j][t2] >> = combos[perm[j]]

VertexLayoutWitness ==
    /\ Len(meshes) >= 1 /\ shape.edge_radius > 0
    /\ shape.max_x # shape.max_y /\ shape.max_y # shape.max_z /\ shape.max_x # shape.max_z
    /\ Len(meshes[1].positions) = 24

\* C6: every vertex normal of a built mesh is an axis-aligned unit vector, the same
\* for the four vertices of a group, namely the outward normal of the group's face:
\* +1 or -1 on the axis on which the vertex sits at the max or the min extreme.
OutwardNormals ==
    \A k \in 1..Len(meshes) :
        LET m == meshes[k] IN
        \A g \in 1..6 : \A j \in 1..4 :
            LET i == 4 * (g - 1) + j IN
            /\ m.normals[i] \in { AxisVector(a, s) : a \in 1..3, s \in {1, -1} }
            /\ m.normals[i] = m.normals[4 * (g - 1) + 1]
            /\ m.normals[i] = AxisVector(FaceAxis[g], FaceSign[g])
            /\ m.positions[i][FaceAxis[g]] = ExtremeOf(shape, FaceAxis[g], FaceSign[g])

OutwardNormalsWitness ==
    /\ Len(meshes) >= 1 /\ ValidBox(shape)
    /\ meshes[1].normals[24] = <<0, -1, 0>>

\* C7: for a box with positive side lengths and 0 <= edge_radius < min(side) / 2,
\* each of the 12 face triangles (the first 36 indices) is wound counter-clockwise
\* seen from its normal: (v1 - v0) x (v2 - v1) is a positive multiple of the normal
\* stored on its three vertices.
FaceWinding ==
    \A k \in 1..Len(meshes) :
        ValidBox(shape) =>
            LET m == meshes[k]
                tris == Triangles(m.indices)
            IN
            /\ Len(tris) >= 12
            /\ \A t \in 1..12 :
                LET v0 == PositionAt(m, tris[t][1])
                    v1 == PositionAt(m, tris[t][2])
                    v2 == PositionAt(m, tris[t][3])
                    n == NormalAt(m, tris[t][1])
                    c == Cross(Sub(v1, v0), Sub(v2, v1))
                IN
                /\ NormalAt(m, tris[t][2]) = n
                /\ NormalAt(m, tris[t][3]) = n
                /\ Dot(c, n) > 0
                /\ c = Scaled(Dot(c, n), n)

FaceWindingWitness ==
    /\ Len(meshes) >= 1 /\ ValidBox(shape) /\ shape.edge_radius > 0
    /\ shape.max_x < shape.max_y /\ shape.max_y < shape.max_z

\* C8: with edge_radius = 0 the distinct vertex positions of a built mesh are the
\* corners of [min_x,max_x] x [min_y,max_y] x [min_z,max_z], every edge band
\* triangle (triangles 13..36) has two vertices at one position and every corner
\* triangle (triangles 37..44) has all three at one position.
SharpCuboid ==
    \A k \in 1..Len(meshes) :
        shape.edge_radius = 0 =>
            LET m == meshes[k]
                tris == Triangles(m.indices)
            IN
            /\ { m.positions[i] : i \in 1..Len(m.positions) }
                 = { <<x, y, z>> : x \in {shape.min_x, shape.max_x},
                                   y \in {shape.min_y, shape.max_y},
                                   z \in {shape.min_z, shape.max_z} }
            /\ Len(tris) = 44
            /\ \A t \in 13..36 :
                \/ PositionAt(m, tris[t][1]) = PositionAt(m, tris[t][2])
                \/ PositionAt(m, tris[t][2]) = PositionAt(m, tris[t][3])
                \/ PositionAt(m, tris[t][3]) = PositionAt(m, tris[t][1])
            /\ \A t \in 37..44 :
                /\ PositionAt(m, tris[t][1]) = PositionAt(m, tris[t][2])
                /\ PositionAt(m, tris[t][2]) = PositionAt(m, tris[t][3])

SharpCuboidWitness ==
    /\ Len(meshes) >= 1 /\ shape.edge_radius = 0
    /\ \A a \in 1..3 : MaxOf(shape, a) > MinOf(shape, a)
    /\ Cardinality({ meshes[1].positions[i] : i \in 1..24 }) = 8

\* C10: the index list of a built mesh is a consistently oriented closed surface
\* over the 24 vertices: every index is in 0..23, every vertex is referenced, no
\* triangle repeats an index, and every directed edge of a triangle is in exactly
\* one triangle while its reverse is in exactly one triangle too.
OrientedClosedSurface ==
    \A k \in 1..Len(meshes) :
        LET idx == meshes[k].indices
            tris == Triangles(idx)
        IN
        /\ Len(idx) = 3 * Len(tris)
        /\ \A i \in 1..Len(idx) : idx[i] \in 0..23
        /\ \A v \in 0..23 : \E i \in 1..Len(idx) : idx[i] = v
        /\ \A t \in 1..Len(tris) :
            /\ Cardinality({ tris[t][1], tris[t][2], tris[t][3] }) = 3
            /\ \A e \in DirectedEdges(tris[t]) :
                /\ Cardinality({ u \in 1..Len(tris) : e \in DirectedEdges(tris[u]) }) = 1
                /\ Cardinality({ u \in 1..Len(tris) :
                                   <<e[2], e[1]>> \in DirectedEdges(tris[u]) }) = 1

OrientedClosedSurfaceWitness ==
    /\ Len(meshes) = MaxMeshes
    /\ <<2, 1>> \in DirectedEdges(Triangles(meshes[1].indices)[21])

(***************************************************************************)
(* The map                                                                 *)
(***************************************************************************)
\* Row-major order of the returned points, with `first` the y of the point that
\* comes first and `second` the y of the point that comes second within one cell.
RowMajorWithin(first, second) ==
    \A i, j \in 1..Len(points) :
        i < j =>
            \/ points[i].z < points[j].z
            \/ points[i].z = points[j].z /\ points[i].x < points[j].x
            \/ /\ points[i].z = points[j].z /\ points[i].x = points[j].x
               /\ points[i].y = first /\ points[j].y = second

\* C3 (as stated): the returned points are in row-major order with the floor point
\* (y = -1) before the wall point (y = 0) within a cell, and the map "X " yields
\* [(1,-1,0), (1,0,0), (2,-1,0)].
FloorBeforeWall ==
    returned =>
        /\ RowMajorWithin(-1, 0)
        /\ string_map = << <<"X", " ">> >> =>
             points = << PointI32(1, -1, 0), PointI32(1, 0, 0), PointI32(2, -1, 0) >>

\* C3 (amended): the returned points are in row-major order with the wall point
\* (y = 0) before the floor point (y = -1) within a cell, and the map "X " yields
\* [(1,0,0), (1,-1,0), (2,-1,0)].
WallBeforeFloor ==
    returned =>
        /\ RowMajorWithin(0, -1)
        /\ string_map = << <<"X", " ">> >> =>
             points = << PointI32(1, 0, 0), PointI32(1, -1, 0), PointI32(2, -1, 0) >>

WallBeforeFloorWitness ==
    returned /\ string_map = << <<"X", " ">> >> /\ Len(points) = 3

\* C4: for the character at 0-based row z and 1-based column x the returned points
\* hold (x, -1, z) exactly once and (x, 0, z) once if the character is 'X' and not
\* at all otherwise, and they hold no other point; for the built-in map that is 98
\* floor points and one wall point per 'X'.
CellPointsExact ==
    returned =>
        /\ \A r \in 1..Len(string_map) : \A x \in 1..Len(string_map[r]) :
            /\ Occurrences(points, PointI32(x, -1, r - 1)) = 1
            /\ Occurrences(points, PointI32(x, 0, r - 1))
                 = (IF string_map[r][x] = "X" THEN 1 ELSE 0)
        /\ \A i \in 1..Len(points) :
            /\ points[i].z + 1 \in 1..Len(string_map)
            /\ points[i].x \in 1..Len(string_map[points[i].z + 1])
            /\ points[i].y \in {-1, 0}
        /\ string_map = builtin_string_map =>
            /\ Cardinality({ i \in 1..Len(points) : points[i].y = -1 }) = 98
            /\ Cardinality({ i \in 1..Len(points) : points[i].y = 0 })
                 = Cardinality({ c \in (1..7) \X (1..14) :
                                   builtin_string_map[c[1]][c[2]] = "X" })

CellPointsExactWitness ==
    returned /\ string_map = builtin_string_map /\ Len(points) > 98

(***************************************************************************)
(* The walk                                                                *)
(***************************************************************************)
IsUnitStep(d) ==
    /\ Abs(d.x) + Abs(d.y) + Abs(d.z) = 1
    /\ Cardinality({ c \in {d.x, d.y, d.z} : c # 0 }) = 1

\* C9: for every value in 0..=5 the selector returns, without panicking, a step with
\* exactly one non-zero component equal to +1 or -1, six distinct steps in all; the
\* walk never panics and its consecutive points are at Manhattan distance 1.
UnitSteps ==
    /\ \A p \in GenRange :
        /\ ~get_random_direction(p).panic
        /\ IsUnitStep(get_random_direction(p).value)
    /\ Cardinality({ get_random_direction(p).value : p \in GenRange }) = 6
    /\ ~panicked
    /\ \A i \in 1..(Len(walk) - 1) :
        Abs(walk[i + 1].x - walk[i].x) + Abs(walk[i + 1].y - walk[i].y)
            + Abs(walk[i + 1].z - walk[i].z) = 1
    /\ Len(walk) > 1 =>
        walk[Len(walk)] = PointAdd(walk[Len(walk) - 1], get_random_direction(position).value)

UnitStepsWitness ==
    /\ Len(walk) >= 3 /\ position = 5
    /\ walk[Len(walk)].z = walk[Len(walk) - 1].z - 1

====
